---- MODULE Spec2Model ----
(***************************************************************************)
(* Model of scripts/diff_check.py: the script that loads two snapshots of  *)
(* a ROS 2 graph (before, after), compares them kind by kind and writes    *)
(* the report diff_result.json.                                            *)
(*                                                                         *)
(* A JSON object is a Python dict, which keeps the order of its keys.  The *)
(* snapshot's top-level object is modelled as a TLA+ record (a function    *)
(* whose DOMAIN is the set of keys present); the mappings nodes, topics    *)
(* and services, whose iteration order the script depends on, are          *)
(* modelled as sequences of entries [k |-> key, v |-> value] with pairwise *)
(* distinct keys.  Strings are TLA+ strings and the f-strings of the       *)
(* script are built with \o.                                               *)
(***************************************************************************)
EXTENDS Integers, Sequences, FiniteSets, TLC

VARIABLES
    before_data,   \* json.load of argv[1]                      (line 10)
    after_data,    \* json.load of argv[2]                      (line 13)
    diff_map,      \* the report being built                    (lines 17-39)
    pc,            \* position of the script
    key_idx,       \* position of the loop "for key in keys"    (line 48)
    idx_before,    \* position of the loop over before_names    (line 59)
    idx_after,     \* position of the loop over after_names     (line 84)
    error,         \* <<>> or <<the uncaught exception>>
    diff_result,   \* the documents written to ./diff_result.json, in order
    \* scripts/ros2_state_dumper.py, collect_ros2_graph_data
    cli,                  \* what the ros2 commands answer
    graph_data,           \* the snapshot being built          (lines 225-235)
    node_list_filtered,   \* lines 243-246
    discovered_topics,    \* name -> type                      (line 254)
    discovered_services,  \* name -> type                      (line 255)
    container_nodes,      \* line 279
    node_i,               \* i of "for i, node_name in enumerate" (line 283)
    dumper_pc             \* position of collect_ros2_graph_data

diff_vars == <<before_data, after_data, diff_map, pc, key_idx, idx_before,
               idx_after, error, diff_result>>

dumper_vars == <<cli, graph_data, node_list_filtered, discovered_topics,
                 discovered_services, container_nodes, node_i, dumper_pc>>

vars == <<diff_vars, dumper_vars>>

-----------------------------------------------------------------------------
(* Bounds of the model.                                                    *)

\* parameters held by all the nodes of one snapshot together
MaxParams == 2
\* entries of one snapshot's connections list
MaxConns == 2

-----------------------------------------------------------------------------
(* Sequences and ordered mappings.                                         *)

Range(s) == {s[i] : i \in 1..Len(s)}

\* Python's "x in list" / "x in dict.keys()"
In(x, s) == \E i \in 1..Len(s) : s[i] = x

\* dict.keys(), in insertion order
Keys(m) == [i \in 1..Len(m) |-> m[i].k]

\* dict[k] for a key that is present
Get(m, k) == m[CHOOSE i \in 1..Len(m) : m[i].k = k].v

Distinct(s) == \A i, j \in 1..Len(s) : i # j => s[i] # s[j]

SeqsUpTo(S, n) == UNION {[1..k -> S] : k \in 0..n}

-----------------------------------------------------------------------------
(* The script's constants.                                                 *)

\* keys (lines 41-46)
keys == <<"nodes", "topics", "services", "connections">>

\* the lists of one section of diff_map (lines 18-24)
EmptySection ==
    [topics |-> <<>>, nodes |-> <<>>, services |-> <<>>, param |-> <<>>,
     connections |-> <<>>]

\* diff_map as constructed (lines 17-39)
EmptyDiffMap ==
    [missing |-> EmptySection, add |-> EmptySection, change |-> EmptySection]

\* KindField as it would be if the script read the field "kind"
KindFieldKind == "kind"

\* the name under which a connection item's kind is read (lines 56-57)
KindField == "type"

\* the fields of a connection item the f-string reads, in reading order
ConnFields == <<"source_id", "target_id", KindField, "direction">>

-----------------------------------------------------------------------------
(* The strings the script builds.                                          *)

\* ConnName without the direction
ConnNameNoDirection(item) ==
    item["source_id"] \o " -> " \o item["target_id"] \o "(" \o item[KindField]
        \o ")"

\* f"{item['source_id']} -> {item['target_id']}({item['type']}:{item['direction']})"
ConnName(item) ==
    item["source_id"] \o " -> " \o item["target_id"] \o "(" \o item[KindField]
        \o ":" \o item["direction"] \o ")"

\* f"[{b_n}]: {p['name']}"
ParamEntry(n, p_name) == "[" \o n \o "]: " \o p_name

\* ChangeEntry with the two values in the other order
ChangeEntrySwapped(n, p_name, b_value, a_value) ==
    "[" \o n \o ": " \o p_name \o "] " \o a_value \o " -> " \o b_value

\* f"[{b_n}: {b_p_name}] {b_p['value']} -> {a_p['value']}"
ChangeEntry(n, p_name, b_value, a_value) ==
    "[" \o n \o ": " \o p_name \o "] " \o b_value \o " -> " \o a_value

-----------------------------------------------------------------------------
(* Reading the snapshots (lines 49-57).                                    *)

\* Subscript as data.get(key, []) would be: an absent collection is empty
SubscriptOrEmpty(data, key) ==
    IF key \in DOMAIN data
    THEN [ok |-> TRUE, val |-> data[key]]
    ELSE [ok |-> TRUE, val |-> <<>>]

\* data[key]: the value, or the KeyError Python raises for an absent key
Subscript(data, key) ==
    IF key \in DOMAIN data
    THEN [ok |-> TRUE, val |-> data[key]]
    ELSE [ok |-> FALSE, val |-> <<>>]

\* the first field of ConnFields some item of the list lacks, as a
\* sequence of at most one field name: the KeyError of the list
\* comprehension of line 56 or 57
RECURSIVE FirstLacking(_, _, _)
FirstLacking(items, i, f) ==
    IF i > Len(items) THEN <<>>
    ELSE IF f > Len(ConnFields) THEN FirstLacking(items, i + 1, 1)
    ELSE IF ConnFields[f] \notin DOMAIN items[i] THEN <<ConnFields[f]>>
    ELSE FirstLacking(items, i, f + 1)

\* before_names / after_names (lines 52-57) of a collection that was read
Names(key, coll) ==
    IF key \in {"nodes", "topics", "services"}
    THEN Keys(coll)
    ELSE [i \in 1..Len(coll) |-> ConnName(coll[i])]

\* KeyErrorOf as it would be with the two subscripts in one statement,
\* "before, after = before_data[key], after_data[key]", on line 49
KeyErrorOfOneLine(bd, ad, key) ==
    IF ~Subscript(bd, key).ok \/ ~Subscript(ad, key).ok
    THEN <<[exc |-> "KeyError", arg |-> key, line |-> 49]>>
    ELSE IF key \in {"nodes", "topics", "services"} THEN <<>>
    ELSE IF FirstLacking(Subscript(bd, key).val, 1, 1) # <<>>
    THEN <<[exc |-> "KeyError",
            arg |-> FirstLacking(Subscript(bd, key).val, 1, 1)[1], line |-> 56]>>
    ELSE IF FirstLacking(Subscript(ad, key).val, 1, 1) # <<>>
    THEN <<[exc |-> "KeyError",
            arg |-> FirstLacking(Subscript(ad, key).val, 1, 1)[1], line |-> 57]>>
    ELSE <<>>

\* the exception lines 49-57 raise for this key, as a sequence of at most
\* one record, in the order the lines run
KeyErrorOf(bd, ad, key) ==
    IF ~Subscript(bd, key).ok THEN <<[exc |-> "KeyError", arg |-> key, line |-> 49]>>
    ELSE IF ~Subscript(ad, key).ok THEN <<[exc |-> "KeyError", arg |-> key, line |-> 50]>>
    ELSE IF key \in {"nodes", "topics", "services"} THEN <<>>
    ELSE IF FirstLacking(Subscript(bd, key).val, 1, 1) # <<>>
    THEN <<[exc |-> "KeyError",
            arg |-> FirstLacking(Subscript(bd, key).val, 1, 1)[1], line |-> 56]>>
    ELSE IF FirstLacking(Subscript(ad, key).val, 1, 1) # <<>>
    THEN <<[exc |-> "KeyError",
            arg |-> FirstLacking(Subscript(ad, key).val, 1, 1)[1], line |-> 57]>>
    ELSE <<>>

-----------------------------------------------------------------------------
(* Building the report (lines 59-91).                                      *)

\* Push as diff_map[section][list].insert(0, entry) would be
PushFront(dm, section, list, entry) ==
    [dm EXCEPT ![section][list] = <<entry>> \o @]

\* diff_map[section][list].append(entry)
Push(dm, section, list, entry) ==
    [dm EXCEPT ![section][list] = Append(@, entry)]

\* [b_p['name'] for b_p in params] (lines 70, 72)
ParamNamesOf(params) == [i \in 1..Len(params) |-> params[i].name]

\* list(filter(lambda x: x['name'] == p_name, params))[0] (lines 77-78)
FirstNamed(params, p_name) ==
    params[CHOOSE i \in 1..Len(params) :
              /\ params[i].name = p_name
              /\ \A j \in 1..(i - 1) : params[j].name # p_name]

\* ValueDiffers as b_p != a_p would be: the type tag is compared too
RecordDiffers(b_p, a_p) == b_p # a_p

\* b_p['value'] != a_p['value'] (line 79)
ValueDiffers(b_p, a_p) == b_p.value # a_p.value

\* the cascade over the parameters of a node present on one side only
\* (lines 64-66 with section "missing", lines 89-91 with section "add")
RECURSIVE Cascade(_, _, _, _, _)
Cascade(dm, section, n, params, i) ==
    IF i > Len(params) THEN dm
    ELSE Cascade(Push(dm, section, "param", ParamEntry(n, params[i].name)),
                 section, n, params, i + 1)

\* the loop over before_param_names of a node present on both sides
\* (lines 73-80)
RECURSIVE BeforeParamLoop(_, _, _, _, _)
BeforeParamLoop(dm, b_n, before_params, after_params, i) ==
    IF i > Len(before_params) THEN dm
    ELSE LET b_p_name == ParamNamesOf(before_params)[i]
             b_p == FirstNamed(before_params, b_p_name)
             a_p == FirstNamed(after_params, b_p_name)
             dm1 == IF ~In(b_p_name, ParamNamesOf(after_params))
                    THEN Push(dm, "missing", "param", ParamEntry(b_n, b_p_name))
                    ELSE IF ValueDiffers(b_p, a_p)
                    THEN Push(dm, "change", "param",
                              ChangeEntry(b_n, b_p_name, b_p.value, a_p.value))
                    ELSE dm
         IN  BeforeParamLoop(dm1, b_n, before_params, after_params, i + 1)

\* the loop over after_param_names of a node present on both sides
\* (lines 81-83)
RECURSIVE AfterParamLoop(_, _, _, _, _)
AfterParamLoop(dm, b_n, before_params, after_params, i) ==
    IF i > Len(after_params) THEN dm
    ELSE LET a_p_name == ParamNamesOf(after_params)[i]
             dm1 == IF ~In(a_p_name, ParamNamesOf(before_params))
                    THEN Push(dm, "add", "param", ParamEntry(b_n, a_p_name))
                    ELSE dm
         IN  AfterParamLoop(dm1, b_n, before_params, after_params, i + 1)

\* the parameter comparison of a node present on both sides (lines 68-83)
SharedNode(dm, b_n, before, after) ==
    LET before_params == Get(before, b_n).parameters
        after_params == Get(after, b_n).parameters
    IN  AfterParamLoop(
            BeforeParamLoop(dm, b_n, before_params, after_params, 1),
            b_n, before_params, after_params, 1)

\* "not b_n in after_names" (line 61)
AbsentAfter(b_n, after_names) == ~In(b_n, after_names)

\* AbsentBefore without its "not"
PresentBefore(a_n, before_names) == In(a_n, before_names)

\* "not a_n in before_names" (line 86)
AbsentBefore(a_n, before_names) == ~In(a_n, before_names)

\* MissingCascade without lines 63-66
NoMissingCascade(dm, key, b_n, before) == dm

\* the cascade of a node reported missing (lines 63-66)
MissingCascade(dm, key, b_n, before) ==
    IF key = "nodes"
    THEN Cascade(dm, "missing", b_n, Get(before, b_n).parameters, 1)
    ELSE dm

\* AddCascade without lines 88-91
NoAddCascade(dm, key, a_n, after) == dm

\* the cascade of a node reported added (lines 88-91)
AddCascade(dm, key, a_n, after) ==
    IF key = "nodes"
    THEN Cascade(dm, "add", a_n, Get(after, a_n).parameters, 1)
    ELSE dm

\* one iteration of "for idx_before, b_n in enumerate(before_names)"
\* (lines 59-83)
BeforeIteration(dm, key, before, after, i) ==
    LET b_n == Names(key, before)[i]
    IN  IF AbsentAfter(b_n, Names(key, after))
        THEN MissingCascade(Push(dm, "missing", key, b_n), key, b_n, before)
        ELSE IF key = "nodes" THEN SharedNode(dm, b_n, before, after)
        ELSE dm

\* AfterIteration appending to the lists of "missing"
AfterIterationIntoMissing(dm, key, before, after, i) ==
    LET a_n == Names(key, after)[i]
    IN  IF AbsentBefore(a_n, Names(key, before))
        THEN AddCascade(Push(dm, "missing", key, a_n), key, a_n, after)
        ELSE dm

\* one iteration of "for idx_after, a_n in enumerate(after_names)"
\* (lines 84-91)
AfterIteration(dm, key, before, after, i) ==
    LET a_n == Names(key, after)[i]
    IN  IF AbsentBefore(a_n, Names(key, before))
        THEN AddCascade(Push(dm, "add", key, a_n), key, a_n, after)
        ELSE dm

-----------------------------------------------------------------------------
(* The snapshots the runs start from.  They have the shape                 *)
(* ros2_state_dumper.py gives its output; the fields of a node, topic or   *)
(* service record that diff_check.py never reads (id, path,                *)
(* message_schema) are left out.                                           *)

NodeNames == {"/cam", "/lidar"}
TopicNames == {"/image", "/scan"}
ServiceNames == {"/reset"}

\* parameter records, as parse_param_dump_output appends them
Params ==
    {[name |-> "fps", value |-> "30", type |-> "integer"],
     [name |-> "fps", value |-> "60", type |-> "integer"],
     [name |-> "fps", value |-> "30", type |-> "unknown"],
     [name |-> "rate", value |-> "10", type |-> "double"],
     [name |-> "rate", value |-> "20", type |-> "double"]}

\* the parameters list of one node: names pairwise distinct
ParamLists ==
    {ps \in SeqsUpTo(Params, MaxParams) : Distinct(ParamNamesOf(ps))}

\* the entries of the nodes mapping
NodeEntries ==
    {[k |-> n, v |-> [name |-> n, type |-> "component", parameters |-> ps]] :
        n \in NodeNames, ps \in ParamLists}

RECURSIVE TotalParams(_, _)
TotalParams(nodes, i) ==
    IF i > Len(nodes) THEN 0
    ELSE Len(nodes[i].v.parameters) + TotalParams(nodes, i + 1)

\* the nodes mappings: keys pairwise distinct, in any order
NodeMaps ==
    {m \in SeqsUpTo(NodeEntries, Cardinality(NodeNames)) :
        Distinct(Keys(m)) /\ TotalParams(m, 1) <= MaxParams}

TopicEntry(t) == [k |-> t, v |-> [name |-> t, type |-> "std_msgs/msg/String"]]
ServiceEntry(t) == [k |-> t, v |-> [name |-> t, type |-> "std_srvs/srv/Empty"]]

TopicMaps ==
    {m \in SeqsUpTo({TopicEntry(t) : t \in TopicNames}, Cardinality(TopicNames)) :
        Distinct(Keys(m))}

ServiceMaps ==
    {m \in SeqsUpTo({ServiceEntry(t) : t \in ServiceNames}, Cardinality(ServiceNames)) :
        Distinct(Keys(m))}

\* connection items as collect_ros2_graph_data appends them
ProducedConns ==
    {[type |-> "topic", source_id |-> "/cam", target_id |-> "/image",
      direction |-> "publish"],
     [type |-> "topic", source_id |-> "/image", target_id |-> "/lidar",
      direction |-> "subscribe"],
     [type |-> "service", source_id |-> "/reset", target_id |-> "/cam",
      direction |-> "provide"]}

\* a connection record named as the data model of the specification names
\* it: source_id, target_id, kind, direction
DataModelConns ==
    {[kind |-> "topic", source_id |-> "/cam", target_id |-> "/image",
      direction |-> "publish"]}

\* connections lists: any order, repeated items allowed
ConnLists == SeqsUpTo(ProducedConns \cup DataModelConns, MaxConns)

Snapshot(ns, ts, ss, cs) ==
    [nodes |-> ns, topics |-> ts, services |-> ss, connections |-> cs]

OneNode == <<[k |-> "/cam", v |-> [name |-> "/cam", type |-> "component",
                                    parameters |-> <<>>]]>>

\* snapshots that differ in their nodes and parameters
NodeFamily == {Snapshot(ns, <<>>, <<>>, <<>>) : ns \in NodeMaps}

\* snapshots that differ in their topics and services
ChannelFamily ==
    {Snapshot(OneNode, ts, ss, <<>>) : ts \in TopicMaps, ss \in ServiceMaps}

\* snapshots that differ in their connections
ConnFamily ==
    {Snapshot(OneNode, <<TopicEntry("/image")>>, <<ServiceEntry("/reset")>>, cs) :
        cs \in ConnLists}

\* a document with one of its top-level keys left out
Without(data, key) == [f \in (DOMAIN data) \ {key} |-> data[f]]

FullA ==
    Snapshot(<<[k |-> "/cam", v |-> [name |-> "/cam", type |-> "component",
                 parameters |-> <<[name |-> "fps", value |-> "30", type |-> "integer"]>>]]>>,
             <<TopicEntry("/image")>>, <<>>,
             <<[type |-> "topic", source_id |-> "/cam", target_id |-> "/image",
                direction |-> "publish"]>>)

FullB ==
    Snapshot(<<[k |-> "/lidar", v |-> [name |-> "/lidar", type |-> "component",
                 parameters |-> <<>>]]>>,
             <<TopicEntry("/scan")>>, <<ServiceEntry("/reset")>>, <<>>)

\* documents that lack at most one of the four top-level keys
TruncatedFamily ==
    {FullA, FullB} \cup {Without(d, keys[i]) : d \in {FullA, FullB}, i \in 1..Len(keys)}

Families == {NodeFamily, ChannelFamily, ConnFamily, TruncatedFamily}

-----------------------------------------------------------------------------
(* The run of the script.                                                  *)

\* key, before and after of the current round of the loop (lines 48-50)
\* the other script, scripts/ros2_state_dumper.py, is not running
DumperNotStarted ==
    /\ cli = <<>>
    /\ graph_data = <<>>
    /\ node_list_filtered = <<>>
    /\ discovered_topics = <<>>
    /\ discovered_services = <<>>
    /\ container_nodes = {}
    /\ node_i = 0
    /\ dumper_pc = "not_started"

key == keys[key_idx]
before == Subscript(before_data, key).val
after == Subscript(after_data, key).val

Init ==
    /\ \E fam \in Families : before_data \in fam /\ after_data \in fam
    /\ diff_map = EmptyDiffMap
    /\ pc = "for_key"
    /\ key_idx = 1
    /\ idx_before = 1
    /\ idx_after = 1
    /\ error = <<>>
    /\ diff_result = <<>>
    /\ DumperNotStarted

\* lines 48-57 for the next key: both collections are read and their names
\* built
ForKey ==
    /\ pc = "for_key"
    /\ key_idx <= Len(keys)
    /\ KeyErrorOf(before_data, after_data, key) = <<>>
    /\ pc' = "scan_before"
    /\ idx_before' = 1
    /\ UNCHANGED dumper_vars
    /\ UNCHANGED <<before_data, after_data, diff_map, key_idx, idx_after, error,
                   diff_result>>

\* lines 48-57 for the next key: a subscript raises KeyError, which nothing
\* catches, and the script ends
RaiseKeyError ==
    /\ pc = "for_key"
    /\ key_idx <= Len(keys)
    /\ KeyErrorOf(before_data, after_data, key) # <<>>
    /\ error' = KeyErrorOf(before_data, after_data, key)
    /\ pc' = "error"
    /\ UNCHANGED dumper_vars
    /\ UNCHANGED <<before_data, after_data, diff_map, key_idx, idx_before,
                   idx_after, diff_result>>

\* one iteration of the loop of line 59
ScanBefore ==
    /\ pc = "scan_before"
    /\ idx_before <= Len(Names(key, before))
    /\ diff_map' = BeforeIteration(diff_map, key, before, after, idx_before)
    /\ idx_before' = idx_before + 1
    /\ UNCHANGED dumper_vars
    /\ UNCHANGED <<before_data, after_data, pc, key_idx, idx_after, error,
                   diff_result>>

\* the loop of line 59 is exhausted: on to the loop of line 84
EndScanBefore ==
    /\ pc = "scan_before"
    /\ idx_before > Len(Names(key, before))
    /\ pc' = "scan_after"
    /\ idx_after' = 1
    /\ UNCHANGED dumper_vars
    /\ UNCHANGED <<before_data, after_data, diff_map, key_idx, idx_before, error,
                   diff_result>>

\* one iteration of the loop of line 84
ScanAfter ==
    /\ pc = "scan_after"
    /\ idx_after <= Len(Names(key, after))
    /\ diff_map' = AfterIteration(diff_map, key, before, after, idx_after)
    /\ idx_after' = idx_after + 1
    /\ UNCHANGED dumper_vars
    /\ UNCHANGED <<before_data, after_data, pc, key_idx, idx_before, error,
                   diff_result>>

\* the loop of line 84 is exhausted: on to the next key
EndScanAfter ==
    /\ pc = "scan_after"
    /\ idx_after > Len(Names(key, after))
    /\ pc' = "for_key"
    /\ key_idx' = key_idx + 1
    /\ UNCHANGED dumper_vars
    /\ UNCHANGED <<before_data, after_data, diff_map, idx_before, idx_after, error,
                   diff_result>>

\* lines 94-95, after the last key: the report is written
WriteReport ==
    /\ pc = "for_key"
    /\ key_idx > Len(keys)
    /\ diff_result' = Append(diff_result, diff_map)
    /\ pc' = "done"
    /\ UNCHANGED dumper_vars
    /\ UNCHANGED <<before_data, after_data, diff_map, key_idx, idx_before,
                   idx_after, error>>

Next ==
    \/ ForKey
    \/ RaiseKeyError
    \/ ScanBefore
    \/ EndScanBefore
    \/ ScanAfter
    \/ EndScanAfter
    \/ WriteReport

Spec == Init /\ [][Next]_vars

-----------------------------------------------------------------------------
(* The report of a whole run, as a function of the two documents: the      *)
(* loops of lines 48-91 run to their end.  It is used for documents whose  *)
(* run raises nothing.                                                     *)

RECURSIVE BeforeLoop(_, _, _, _, _)
BeforeLoop(dm, k, b, a, i) ==
    IF i > Len(Names(k, b)) THEN dm
    ELSE BeforeLoop(BeforeIteration(dm, k, b, a, i), k, b, a, i + 1)

RECURSIVE AfterLoop(_, _, _, _, _)
AfterLoop(dm, k, b, a, i) ==
    IF i > Len(Names(k, a)) THEN dm
    ELSE AfterLoop(AfterIteration(dm, k, b, a, i), k, b, a, i + 1)

RECURSIVE KeyLoop(_, _, _, _)
KeyLoop(dm, bd, ad, ki) ==
    IF ki > Len(keys) THEN dm
    ELSE LET k == keys[ki]
             b == Subscript(bd, k).val
             a == Subscript(ad, k).val
         IN  KeyLoop(AfterLoop(BeforeLoop(dm, k, b, a, 1), k, b, a, 1),
                     bd, ad, ki + 1)

Run(bd, ad) == KeyLoop(EmptyDiffMap, bd, ad, 1)

-----------------------------------------------------------------------------
(* Vocabulary of the properties.                                           *)

Sections == {"missing", "add", "change"}
Lists == {"nodes", "topics", "services", "connections", "param"}
ParamNameSet == {p.name : p \in Params}
ValueSet == {p.value : p \in Params}

\* the run has ended with the report written
Done == pc = "done"

\* the report the run wrote
Report == diff_result[1]

\* number of occurrences of x in the list s
Count(x, s) == Cardinality({i \in 1..Len(s) : s[i] = x})

\* the nodes of a document, by name
HasNode(data, n) == In(n, Keys(data.nodes))
ParamsOf(data, n) == Get(data.nodes, n).parameters
HasParam(data, n, p) == In(p, ParamNamesOf(ParamsOf(data, n)))
ValueOf(data, n, p) == FirstNamed(ParamsOf(data, n), p).value
TypeOf(data, n, p) == FirstNamed(ParamsOf(data, n), p).type

\* the node is in both documents
Shared(n) == HasNode(before_data, n) /\ HasNode(after_data, n)

-----------------------------------------------------------------------------
(* C1: identity law.  When before and after are the same snapshot, every   *)
(* list of the report (of missing, of add and of change) is empty: while   *)
(* it is built and in the document written.                                *)

\* C1: a snapshot compared with itself gives a report with every list empty
C1_IdentityLaw ==
    before_data = after_data =>
        /\ \A s \in Sections : \A l \in Lists : diff_map[s][l] = <<>>
        /\ Done => \A s \in Sections : \A l \in Lists : Report[s][l] = <<>>

\* a snapshot with two nodes and two parameters was compared with itself
C1_Witness ==
    /\ Done
    /\ before_data = after_data
    /\ Len(before_data.nodes) = 2
    /\ TotalParams(before_data.nodes, 1) = 2

-----------------------------------------------------------------------------
(* C2: for nodes, topics, services and connections, missing[kind] holds    *)
(* exactly the identity keys of before that are absent from after,         *)
(* add[kind] exactly those of after that are absent from before, and a key *)
(* of both snapshots is in neither list.                                   *)

\* the identity of an entity: the mapping key, or the four fields of a
\* connection
Identity(kind, coll, i) ==
    IF kind = "connections"
    THEN <<coll[i].source_id, coll[i].target_id, coll[i].type, coll[i].direction>>
    ELSE coll[i].k

Identities(kind, coll) == {Identity(kind, coll, i) : i \in 1..Len(coll)}

\* the display strings of the entities of coll whose identity is not in other
OnlyIn(kind, coll, other) ==
    {Names(kind, coll)[i] :
        i \in {j \in 1..Len(coll) :
                  Identity(kind, coll, j) \notin Identities(kind, other)}}

BothIn(kind, coll, other) ==
    {Names(kind, coll)[i] :
        i \in {j \in 1..Len(coll) :
                  Identity(kind, coll, j) \in Identities(kind, other)}}

\* C2: missing[kind] and add[kind] hold exactly the identities of one side only
C2_MissingAddExact ==
    Done => \A kind \in Range(keys) :
        /\ Range(Report.missing[kind])
              = OnlyIn(kind, before_data[kind], after_data[kind])
        /\ Range(Report.add[kind])
              = OnlyIn(kind, after_data[kind], before_data[kind])
        /\ \A x \in BothIn(kind, before_data[kind], after_data[kind]) :
              /\ ~In(x, Report.missing[kind])
              /\ ~In(x, Report.add[kind])

\* connections were lost, gained and kept
C2_Witness ==
    /\ Done
    /\ Report.missing.connections # <<>>
    /\ Report.add.connections # <<>>
    /\ BothIn("connections", before_data.connections, after_data.connections) # {}

-----------------------------------------------------------------------------
(* C3: the parameters of a node N of both snapshots are compared by name.  *)
(* A name only in before gives the missing.param entry "[N]: p", a name    *)
(* only in after the add.param entry "[N]: p", a name of both with         *)
(* different values the change.param entry "[N: p] <before> -> <after>",   *)
(* and a name of both with equal values gives no entry.  The scenario      *)
(* /cam fps 30 against /cam fps 60 with a new node /lidar gives            *)
(* change.param = ["[/cam: fps] 30 -> 60"], add.nodes = ["/lidar"] and     *)
(* every other list empty.                                                 *)

CamBefore ==
    Snapshot(<<[k |-> "/cam", v |-> [name |-> "/cam", type |-> "component",
                 parameters |-> <<[name |-> "fps", value |-> "30", type |-> "integer"]>>]]>>,
             <<>>, <<>>, <<>>)

CamAfter ==
    Snapshot(<<[k |-> "/cam", v |-> [name |-> "/cam", type |-> "component",
                 parameters |-> <<[name |-> "fps", value |-> "60", type |-> "integer"]>>]],
               [k |-> "/lidar", v |-> [name |-> "/lidar", type |-> "component",
                 parameters |-> <<>>]]>>,
             <<>>, <<>>, <<>>)

CamReport ==
    [EmptyDiffMap EXCEPT !.change.param = <<"[/cam: fps] 30 -> 60">>,
                         !.add.nodes = <<"/lidar">>]

\* C3: the parameter entries of a node of both snapshots, and the /cam scenario
C3_SharedNodeParams ==
    Done =>
        /\ \A n \in NodeNames : Shared(n) => \A p \in ParamNameSet :
              /\ In("[" \o n \o "]: " \o p, Report.missing.param)
                    <=> (HasParam(before_data, n, p) /\ ~HasParam(after_data, n, p))
              /\ In("[" \o n \o "]: " \o p, Report.add.param)
                    <=> (HasParam(after_data, n, p) /\ ~HasParam(before_data, n, p))
              /\ \A bv, av \in ValueSet :
                    In("[" \o n \o ": " \o p \o "] " \o bv \o " -> " \o av,
                       Report.change.param)
                    <=> /\ HasParam(before_data, n, p)
                        /\ HasParam(after_data, n, p)
                        /\ ValueOf(before_data, n, p) = bv
                        /\ ValueOf(after_data, n, p) = av
                        /\ bv # av
        /\ (before_data = CamBefore /\ after_data = CamAfter) => Report = CamReport

\* the scenario was run
C3_Witness == Done /\ before_data = CamBefore /\ after_data = CamAfter

-----------------------------------------------------------------------------
(* C4: a node N of before that is not in after is in missing.nodes, with   *)
(* "[N]: p" in missing.param for every parameter p it has in before; a     *)
(* node of after that is not in before is in add.nodes, with "[N]: p" in   *)
(* add.param for every parameter p it has in after.                        *)

\* C4: a deleted or added node is reported with every one of its parameters
C4_NodeCascade ==
    Done => \A n \in NodeNames :
        /\ (HasNode(before_data, n) /\ ~HasNode(after_data, n)) =>
              /\ In(n, Report.missing.nodes)
              /\ \A p \in ParamNameSet : HasParam(before_data, n, p) =>
                    In("[" \o n \o "]: " \o p, Report.missing.param)
        /\ (HasNode(after_data, n) /\ ~HasNode(before_data, n)) =>
              /\ In(n, Report.add.nodes)
              /\ \A p \in ParamNameSet : HasParam(after_data, n, p) =>
                    In("[" \o n \o "]: " \o p, Report.add.param)

\* a node with two parameters was deleted
C4_Witness ==
    /\ Done
    /\ \E n \in NodeNames :
          /\ HasNode(before_data, n)
          /\ ~HasNode(after_data, n)
          /\ Len(ParamsOf(before_data, n)) = 2
          /\ Len(Report.missing.param) = 2

-----------------------------------------------------------------------------
(* C5: symmetry of add and missing.  For snapshots A and B and every list  *)
(* name k, missing[k] of diff(A, B) holds the entries of add[k] of         *)
(* diff(B, A) with the same multiplicities, add[k] of diff(A, B) those of  *)
(* missing[k] of diff(B, A), and change.param of the two runs covers the   *)
(* same (node, param) pairs with the before and after values exchanged.    *)

SameEntries(s, t) ==
    \A x \in Range(s) \cup Range(t) : Count(x, s) = Count(x, t)

\* the change.param entries, every one of them of a (node, param) pair
ChangeStrings ==
    {"[" \o n \o ": " \o p \o "] " \o bv \o " -> " \o av :
        n \in NodeNames, p \in ParamNameSet, bv \in ValueSet, av \in ValueSet}

\* C5: exchanging before and after exchanges missing and add and turns the
\* change.param entries round
C5_Symmetry ==
    Done =>
        LET fwd == Report
            rev == Run(after_data, before_data)
        IN  /\ \A l \in Lists :
                  /\ SameEntries(fwd.missing[l], rev.add[l])
                  /\ SameEntries(fwd.add[l], rev.missing[l])
            /\ Range(fwd.change.param) \subseteq ChangeStrings
            /\ Range(rev.change.param) \subseteq ChangeStrings
            /\ Len(fwd.change.param) = Len(rev.change.param)
            /\ \A n \in NodeNames, p \in ParamNameSet : \A bv, av \in ValueSet :
                  Count("[" \o n \o ": " \o p \o "] " \o bv \o " -> " \o av,
                        fwd.change.param)
                  = Count("[" \o n \o ": " \o p \o "] " \o av \o " -> " \o bv,
                          rev.change.param)

\* parameters were lost, gained and changed, and a node was added
C5_Witness ==
    /\ Done
    /\ Report.missing.param # <<>>
    /\ Report.add.param # <<>>
    /\ Report.change.param # <<>>

-----------------------------------------------------------------------------
(* C6: a connection that the connections list of one snapshot holds twice  *)
(* (same source_id, target_id, kind and direction) and that the other      *)
(* snapshot lacks is reported once in missing.connections (or              *)
(* add.connections), not once per list entry.                              *)

\* C6: no connection name is listed twice in missing.connections or
\* add.connections
C6_DuplicatesCollapse ==
    Done =>
        /\ \A x \in Range(Report.missing.connections) :
              Count(x, Report.missing.connections) = 1
        /\ \A x \in Range(Report.add.connections) :
              Count(x, Report.add.connections) = 1

-----------------------------------------------------------------------------
(* C7: a parameter of a node of both snapshots whose value is the same     *)
(* string on both sides and whose type tag differs gives no change.param   *)
(* entry, and the whole report is what it is with the type tags equal.     *)

\* the document with every type tag of a parameter set to "unknown"
Untyped(data) ==
    [data EXCEPT !.nodes =
        [i \in 1..Len(data.nodes) |->
            [data.nodes[i] EXCEPT !.v.parameters =
                [j \in 1..Len(data.nodes[i].v.parameters) |->
                    [data.nodes[i].v.parameters[j] EXCEPT !.type = "unknown"]]]]]

\* C7: the type tags of the parameters have no effect on the report
C7_ValueOnly ==
    Done =>
        /\ Report = Run(Untyped(before_data), Untyped(after_data))
        /\ \A n \in NodeNames : Shared(n) => \A p \in ParamNameSet :
              (/\ HasParam(before_data, n, p)
               /\ HasParam(after_data, n, p)
               /\ ValueOf(before_data, n, p) = ValueOf(after_data, n, p))
              => \A bv, av \in ValueSet :
                    ~In("[" \o n \o ": " \o p \o "] " \o bv \o " -> " \o av,
                        Report.change.param)

\* a parameter kept its value and changed its type tag
C7_Witness ==
    /\ Done
    /\ \E n \in NodeNames : \E p \in ParamNameSet :
          /\ Shared(n)
          /\ HasParam(before_data, n, p)
          /\ HasParam(after_data, n, p)
          /\ ValueOf(before_data, n, p) = ValueOf(after_data, n, p)
          /\ TypeOf(before_data, n, p) # TypeOf(after_data, n, p)

-----------------------------------------------------------------------------
(* C8: when one of the keys nodes, topics, services, connections is absent *)
(* from before or from after, the run ends in an error that names an       *)
(* absent key, and diff_result.json is never written, whichever key it is  *)
(* and however many kinds were compared before.                            *)

AbsentKeys(data) == {keys[i] : i \in {j \in 1..Len(keys) : keys[j] \notin DOMAIN data}}

Truncated(data) == AbsentKeys(data) # {}

\* C8: with a top-level key absent the run ends in a KeyError naming an
\* absent key and nothing is ever written
C8_MalformedFatal ==
    (Truncated(before_data) \/ Truncated(after_data)) =>
        /\ diff_result = <<>>
        /\ pc # "done"
        /\ pc = "error" =>
              /\ error[1].exc = "KeyError"
              /\ error[1].arg \in AbsentKeys(before_data) \cup AbsentKeys(after_data)
        /\ pc # "error" => ENABLED Next

\* the run failed at the last key, its report half built and not written
C8_Witness ==
    /\ pc = "error"
    /\ key = "connections"
    /\ Truncated(after_data)
    /\ diff_map # EmptyDiffMap
    /\ diff_result = <<>>

-----------------------------------------------------------------------------
(* C9: for snapshots that conform to the data model, the run ends without  *)
(* error and writes diff_result.json exactly once, also when every list of *)
(* the report is empty.                                                    *)

HasAllKeys(data) == \A i \in 1..Len(keys) : keys[i] \in DOMAIN data

\* the data model as the claim words it: a connection is a record of
\* source_id, target_id, kind, direction
KindConforming(data) ==
    /\ HasAllKeys(data)
    /\ \A i \in 1..Len(data.connections) :
          DOMAIN data.connections[i] = {"source_id", "target_id", "kind", "direction"}

\* the data model with the connection's kind held in the field "type"
TypeConforming(data) ==
    /\ HasAllKeys(data)
    /\ \A i \in 1..Len(data.connections) :
          DOMAIN data.connections[i] = {"source_id", "target_id", "type", "direction"}

\* C9 as worded: documents whose connection records hold source_id,
\* target_id, kind, direction never end in an error
C9_KindModelCompletes ==
    (KindConforming(before_data) /\ KindConforming(after_data)) => pc # "error"

\* the steps the run of conforming documents has left: for every key to
\* come one step to read it, one per name of before, one to leave that
\* loop, one per name of after and one to leave that loop, then the write
RECURSIVE RoundsLeft(_)
RoundsLeft(ki) ==
    IF ki > Len(keys) THEN 1
    ELSE 3 + Len(before_data[keys[ki]]) + Len(after_data[keys[ki]])
         + RoundsLeft(ki + 1)

StepsLeft ==
    IF pc = "for_key" THEN RoundsLeft(key_idx)
    ELSE IF pc = "scan_before"
    THEN (Len(before) - idx_before + 1) + 1 + Len(after) + 1 + RoundsLeft(key_idx + 1)
    ELSE IF pc = "scan_after"
    THEN (Len(after) - idx_after + 1) + 1 + RoundsLeft(key_idx + 1)
    ELSE 0

\* C9 with the connection record as the script reads it: no error,
\* never more than one document written, one written at the end, and the
\* run neither stops before its end nor goes on for ever (every step takes
\* one off the steps left)
C9_TypeModelCompletes ==
    /\ [] ((TypeConforming(before_data) /\ TypeConforming(after_data)) =>
              /\ pc # "error"
              /\ Len(diff_result) <= 1
              /\ Done <=> Len(diff_result) = 1
              /\ Done \/ ENABLED Next
              /\ Done <=> StepsLeft = 0)
    /\ [][(TypeConforming(before_data) /\ TypeConforming(after_data)) =>
              StepsLeft' = StepsLeft - 1]_vars

\* a report with every list empty was written, connections present
C9_Witness ==
    /\ Done
    /\ TypeConforming(before_data)
    /\ before_data.connections # <<>>
    /\ diff_result = <<EmptyDiffMap>>

-----------------------------------------------------------------------------
(* C10: every output list is in the order in which the snapshot that       *)
(* triggered its entries is scanned: the missing lists, missing.param      *)
(* included, in the order of before, the add lists, add.param included, in *)
(* the order of after, nodes in the order of that snapshot's mapping and   *)
(* parameters in the order of the node's parameters.                       *)

\* the entries of s that are in t, in the order of s
Sub(s, t) ==
    LET Kept(e) == In(e, t)
    IN  SelectSeq(s, Kept)

\* "[n]: p" for the nodes named, in order, each with its parameters in data,
\* in order
RECURSIVE ScopedEntries(_, _, _)
ScopedEntries(names, data, i) ==
    IF i > Len(names) THEN <<>>
    ELSE [j \in 1..Len(ParamsOf(data, names[i])) |->
             "[" \o names[i] \o "]: " \o ParamsOf(data, names[i])[j].name]
         \o ScopedEntries(names, data, i + 1)

\* the nodes of before that after has too, in the order of before
SharedNames ==
    LET Kept(n) == HasNode(after_data, n)
    IN  SelectSeq(Keys(before_data.nodes), Kept)

\* the nodes of after that before lacks, in the order of after
NewNames ==
    LET Kept(n) == ~HasNode(before_data, n)
    IN  SelectSeq(Keys(after_data.nodes), Kept)

\* "[n: p] b -> a" for the parameters of both sides, nodes and parameters in
\* the order of before
RECURSIVE ChangeEntriesOfNode(_, _)
ChangeEntriesOfNode(n, j) ==
    IF j > Len(ParamsOf(before_data, n)) THEN <<>>
    ELSE LET p == ParamsOf(before_data, n)[j].name
         IN  (IF HasParam(after_data, n, p)
              THEN <<"[" \o n \o ": " \o p \o "] " \o ValueOf(before_data, n, p)
                       \o " -> " \o ValueOf(after_data, n, p)>>
              ELSE <<>>)
             \o ChangeEntriesOfNode(n, j + 1)

RECURSIVE ChangeEntries(_, _)
ChangeEntries(names, i) ==
    IF i > Len(names) THEN <<>>
    ELSE ChangeEntriesOfNode(names[i], 1) \o ChangeEntries(names, i + 1)

\* the order of the lists of the four kinds and of missing.param
ScanOrder ==
    /\ \A kind \in Range(keys) :
          /\ Report.missing[kind]
                = Sub(Names(kind, before_data[kind]), Report.missing[kind])
          /\ Report.add[kind]
                = Sub(Names(kind, after_data[kind]), Report.add[kind])
    /\ Report.missing.param
          = Sub(ScopedEntries(Keys(before_data.nodes), before_data, 1),
                Report.missing.param)

\* C10 as worded: add.param too is in the order in which after is scanned
C10_AddParamInAfterOrder ==
    Done =>
        /\ ScanOrder
        /\ Report.add.param
              = Sub(ScopedEntries(Keys(after_data.nodes), after_data, 1),
                    Report.add.param)

\* C10 with add.param as the script fills it: first the parameters
\* gained by the nodes of both snapshots, nodes in the order of before, then
\* the parameters of the nodes only after has, nodes in the order of after;
\* change.param in the order of before
C10_OutputOrder ==
    Done =>
        /\ ScanOrder
        /\ Report.add.param
              = Sub(ScopedEntries(SharedNames, after_data, 1)
                        \o ScopedEntries(NewNames, after_data, 1),
                    Report.add.param)
        /\ Report.change.param
              = Sub(ChangeEntries(SharedNames, 1), Report.change.param)

\* add.param holds the gain of a node of both snapshots before the
\* parameter of a new node that comes first in after
C10_Witness ==
    /\ Done
    /\ Len(Report.add.param) = 2
    /\ Len(NewNames) = 1
    /\ Len(SharedNames) = 1
    /\ Keys(after_data.nodes) = NewNames \o SharedNames

-----------------------------------------------------------------------------
(* Runs on connections whose fields are arbitrary strings, and on the      *)
(* connection /a -> /b: before and after differ in their connections       *)
(* alone, each holding at most one.                                        *)

SourceIds == {"/a", "/a -> /b"}
TargetIds == {"/b", "/c", "/b -> /c"}
Kinds == {"topic", "service"}

\* connection records with the kind in the field the script reads
StringConns ==
    {[type |-> t, source_id |-> s, target_id |-> g, direction |-> "publish"] :
        s \in SourceIds, g \in TargetIds, t \in Kinds}

\* the connection /a -> /b worded as the data model words it
KindConnAB ==
    [kind |-> "topic", source_id |-> "/a", target_id |-> "/b",
     direction |-> "publish"]

KeyFamily ==
    {Snapshot(<<>>, <<>>, <<>>, cs) :
        cs \in {<<>>} \cup {<<c>> : c \in StringConns \cup {KindConnAB}}}

KeyInit ==
    /\ before_data \in KeyFamily
    /\ after_data \in KeyFamily
    /\ diff_map = EmptyDiffMap
    /\ pc = "for_key"
    /\ key_idx = 1
    /\ idx_before = 1
    /\ idx_after = 1
    /\ error = <<>>
    /\ diff_result = <<>>
    /\ DumperNotStarted

KeySpec == KeyInit /\ [][Next]_vars

-----------------------------------------------------------------------------
(* C11: the connection key is injective over the four fields.  The keys of *)
(* two connection records are equal if and only if source_id, target_id,   *)
(* kind and direction are all equal, for arbitrary strings in the fields.  *)

\* the names of lines 56-57 have been built
NamesBuilt == key_idx = Len(keys) /\ pc \in {"scan_before", "scan_after"}

\* C11: two connections of the run have the same key exactly if they have
\* the same four fields
C11_KeyInjective ==
    NamesBuilt =>
        \A i \in 1..Len(before) : \A j \in 1..Len(after) :
            (Names(key, before)[i] = Names(key, after)[j])
            <=> /\ before[i].source_id = after[j].source_id
                /\ before[i].target_id = after[j].target_id
                /\ before[i].type = after[j].type
                /\ before[i].direction = after[j].direction

-----------------------------------------------------------------------------
(* C12: with the single connection /a -> /b (topic, publish) in before and *)
(* no connection in after, all other collections equal, the report has     *)
(* missing.connections = ["/a -> /b(topic:publish)"] and every other list  *)
(* empty.                                                                  *)

ReportAB ==
    [EmptyDiffMap EXCEPT !.missing.connections = <<"/a -> /b(topic:publish)">>]

TypeConnAB ==
    [type |-> "topic", source_id |-> "/a", target_id |-> "/b",
     direction |-> "publish"]

Ended == pc \in {"done", "error"}

\* C12 as worded, the connection holding its kind in the field "kind": the
\* run ends with that report written
C12_KindScenario ==
    (/\ before_data = Snapshot(<<>>, <<>>, <<>>, <<KindConnAB>>)
     /\ after_data = Snapshot(<<>>, <<>>, <<>>, <<>>)
     /\ Ended)
    => diff_result = <<ReportAB>>

\* C12 with the connection holding its kind in the field "type": the run
\* ends with that report written
C12_TypeScenario ==
    (/\ before_data = Snapshot(<<>>, <<>>, <<>>, <<TypeConnAB>>)
     /\ after_data = Snapshot(<<>>, <<>>, <<>>, <<>>)
     /\ Ended)
    => diff_result = <<ReportAB>>

\* the scenario was run to its end
C12_Witness ==
    /\ before_data = Snapshot(<<>>, <<>>, <<>>, <<TypeConnAB>>)
    /\ after_data = Snapshot(<<>>, <<>>, <<>>, <<>>)
    /\ Ended

-----------------------------------------------------------------------------
(* C13: on malformed input the error reported names the input (before or   *)
(* after) that is malformed and the top-level field it lacks.  The report  *)
(* of an uncaught exception is the traceback, which gives the line of the  *)
(* failing statement (49 reads before_data, 50 reads after_data), followed *)
(* by the exception, whose argument is the key.                            *)

\* the input the traceback points at
InputOfLine(line) ==
    IF line = 49 THEN <<before_data>>
    ELSE IF line = 50 THEN <<after_data>>
    ELSE <<>>

\* C13: the run on a document lacking a top-level key ends in a KeyError
\* whose line points at a document that lacks the key the error names
C13_ErrorNamesInputAndField ==
    (pc = "error" /\ (Truncated(before_data) \/ Truncated(after_data))) =>
        /\ error[1].exc = "KeyError"
        /\ InputOfLine(error[1].line) # <<>>
        /\ error[1].arg \in Range(keys)
        /\ error[1].arg \notin DOMAIN InputOfLine(error[1].line)[1]

\* after lacked a key that before had, and the error said so
C13_Witness ==
    /\ pc = "error"
    /\ ~Truncated(before_data)
    /\ Truncated(after_data)
    /\ error[1].line = 50
    /\ error[1].arg \in AbsentKeys(after_data)

-----------------------------------------------------------------------------
(* Model of scripts/ros2_state_dumper.py: the producer of the snapshots.   *)
(*                                                                         *)
(* A value loaded from YAML is a record with the Python type in py: a      *)
(* scalar with its str() in str, or a dict with its entries, in order and  *)
(* with pairwise distinct keys, in items.                                  *)

\* entries of the nested mappings of a parameter dump, all levels together
MaxEntries == 3

IntValue == [py |-> "int", str |-> "30"]
NoneValue == [py |-> "NoneType", str |-> "None"]
EmptyString == [py |-> "str", str |-> ""]
Dict(items) == [py |-> "dict", items |-> items]

YamlScalars == {IntValue, NoneValue}
YamlKeys == {"a", "b", "a.b"}

\* the item lists of the dicts that hold at most n entries, nested ones
\* included
RECURSIVE DictItems(_)
DictItems(n) ==
    IF n = 0 THEN {<<>>}
    ELSE {<<>>} \cup UNION {
        {<<[k |-> e[1], v |-> e[2]]>> \o e[3] :
            e \in {x \in YamlKeys
                         \X ((IF m = 0 THEN YamlScalars ELSE {})
                             \cup {Dict(f) : f \in DictItems(m)})
                         \X DictItems(n - 1 - m) :
                   ~In(x[1], Keys(x[3]))}} :
        m \in 0..(n - 1)}

\* IGNORE_TOPIC_NAMES (lines 19-21)
IGNORE_TOPIC_NAMES == {"parameter_events"}

\* IGNORE_SERVICE_NAMES (lines 10-17)
IGNORE_SERVICE_NAMES ==
    {"describe_parameters", "get_parameter_types", "get_parameters",
     "list_parameters", "set_parameters", "set_parameters_atomically"}

\* get_python_type_name (lines 84-99)
get_python_type_name(value) ==
    IF value.py = "bool" THEN "boolean"
    ELSE IF value.py = "int" THEN "integer"
    ELSE IF value.py = "float" THEN "double"
    ELSE IF value.py = "str" THEN "string"
    ELSE IF value.py = "list" THEN "array"
    ELSE "unknown"

\* f"{parent_key}.{k}" if parent_key else k (line 110)
NewKey(parent_key, k) ==
    IF parent_key # "" THEN parent_key \o "." \o k ELSE k

\* flatten_dict (lines 102-118), from the i-th item of d on: a sequence of
\* pairs <<name, value>>
RECURSIVE FlattenFrom(_, _, _)
FlattenFrom(d, parent_key, i) ==
    IF i > Len(d) THEN <<>>
    ELSE LET new_key == NewKey(parent_key, d[i].k)
             v == d[i].v
         IN  (IF v.py = "dict"
              THEN FlattenFrom(v.items, new_key, 1)
              ELSE <<<<new_key, IF v.py = "NoneType" THEN EmptyString ELSE v>>>>)
             \o FlattenFrom(d, parent_key, i + 1)

flatten_dict(d, parent_key) == FlattenFrom(d, parent_key, 1)

\* the parameter records of lines 145-155
ParamRecords(flattened) ==
    [i \in 1..Len(flattened) |->
        LET param_value == IF flattened[i][2].py = "NoneType"
                           THEN EmptyString ELSE flattened[i][2]
        IN  [name |-> flattened[i][1],
             value |-> param_value.str,
             type |-> get_python_type_name(param_value)]]

\* parse_param_dump_output (lines 121-159) on the value yaml.safe_load
\* returned
parse_param_dump_output(data, node_name) ==
    IF data.py = "NoneType" THEN <<>>
    ELSE LET node_params == IF In(node_name, Keys(data.items))
                            THEN Get(data.items, node_name)
                            ELSE data
         IN  IF node_params.py = "dict" /\ In("ros__parameters", Keys(node_params.items))
             THEN LET ros_params == Get(node_params.items, "ros__parameters")
                  IN  IF ros_params.py = "dict"
                      THEN ParamRecords(flatten_dict(ros_params.items, ""))
                      ELSE <<>>
             ELSE <<>>

\* name.split('/') (lines 262, 272, 293) on the names of the model
split(name) ==
    CASE name = "/cam" -> <<"", "cam">>
      [] name = "/listener_impl" -> <<"", "listener_impl">>
      [] name = "/_ros2cli_1" -> <<"", "_ros2cli_1">>
      [] name = "/ros2_state_yaml_dumper_node" -> <<"", "ros2_state_yaml_dumper_node">>
      [] name = "/image" -> <<"", "image">>
      [] name = "/cam/parameter_events" -> <<"", "cam", "parameter_events">>
      [] name = "/reset" -> <<"", "reset">>
      [] name = "/cam/get_parameters" -> <<"", "cam", "get_parameters">>

\* name.split('/')[-1]
LastSegment(name) == split(name)[Len(split(name))]

\* the name segments that begin with "_ros2cli_" and those that hold "_impl"
Ros2cliSegments == {"_ros2cli_1"}
ImplSegments == {"listener_impl"}

\* n.startswith('/_ros2cli_') (line 245), re.match(r'/_ros2cli_.*', n)
StartsWithRos2cli(n) == split(n)[2] \in Ros2cliSegments

\* should_skip_node_param_dump (lines 61-68) with IGNORE_NODE_PATTERNS
\* (lines 24-27)
should_skip_node_param_dump(node_name) ==
    \/ \E i \in 1..Len(split(node_name)) : split(node_name)[i] \in ImplSegments
    \/ StartsWithRos2cli(node_name)

\* [p for p in node_name.split('/') if p] (line 293)
path_parts(node_name) == SelectSeq(split(node_name), LAMBDA part : part # "")

\* dict[k] = v: a present key keeps its position
Put(m, k, v) ==
    IF In(k, Keys(m))
    THEN [i \in 1..Len(m) |-> IF m[i].k = k THEN [k |-> k, v |-> v] ELSE m[i]]
    ELSE Append(m, [k |-> k, v |-> v])

\* lines 243-246
FilterNodes(node_list_all) ==
    SelectSeq(node_list_all,
              LAMBDA n : ~StartsWithRos2cli(n) /\ n # "/ros2_state_yaml_dumper_node")

\* re.match(r'(/[\w/]+)\s+\[([\w/]+)\]', line) (lines 259, 269): a line
\* "name [type]" matches, a line "name [type, type]" does not
Matches(line) == Len(line.types) = 1

\* the loops of lines 258-265 and 268-275 over the first i lines
Discover(lines, ignore, i) ==
    LET F[j \in 0..i] ==
            IF j = 0 THEN <<>>
            ELSE IF Matches(lines[j]) /\ LastSegment(lines[j].name) \notin ignore
                 THEN Put(F[j - 1], lines[j].name, lines[j].types[1])
                 ELSE F[j - 1]
    IN  F[i]

\* get_component_info (lines 162-194): the container names
ContainerNodes(component_list) ==
    {line.name : line \in {l \in Range(component_list) : ~l.leading_space}}

\* the parameters of lines 297-308
ParametersOf(c, containers, node_name) ==
    IF node_name \in containers THEN <<>>
    ELSE IF should_skip_node_param_dump(node_name) THEN <<>>
    ELSE IF ~c.param_list_ok THEN <<>>
    ELSE IF c.param_dump.py = "failed" THEN <<>>
    ELSE parse_param_dump_output(c.param_dump, node_name)

\* the node record of lines 311-317
NodeRecord(i, node_name, parameters) ==
    [id |-> <<"node_", i>>, name |-> node_name, path |-> path_parts(node_name),
     type |-> "component", parameters |-> parameters]

\* current_section after the first i lines of the node info (lines 322-327)
CurrentSection(info, i) ==
    LET F[j \in 0..i] ==
            IF j = 0 THEN "None"
            ELSE IF info[j].header THEN info[j].text ELSE F[j - 1]
    IN  F[i]

\* lines 333-360 with the conditions "name in discovered_..." left out
ConnectionsOfLineUnchecked(section, name, node_name, topics, services) ==
    IF section = "Publishers"
    THEN <<[type |-> "topic", source_id |-> node_name, target_id |-> name,
            direction |-> "publish"]>>
    ELSE IF section = "Subscribers"
    THEN <<[type |-> "topic", source_id |-> name, target_id |-> node_name,
            direction |-> "subscribe"]>>
    ELSE IF section = "Service Servers"
    THEN <<[type |-> "service", source_id |-> name, target_id |-> node_name,
            direction |-> "provide"]>>
    ELSE IF section = "Service Clients"
    THEN <<[type |-> "service", source_id |-> node_name, target_id |-> name,
            direction |-> "call"]>>
    ELSE <<>>

\* lines 333-360: what one line of a section appends to the connections
ConnectionsOfLine(section, name, node_name, topics, services) ==
    IF section = "Publishers" /\ In(name, Keys(topics))
    THEN <<[type |-> "topic", source_id |-> node_name, target_id |-> name,
            direction |-> "publish"]>>
    ELSE IF section = "Subscribers" /\ In(name, Keys(topics))
    THEN <<[type |-> "topic", source_id |-> name, target_id |-> node_name,
            direction |-> "subscribe"]>>
    ELSE IF section = "Service Servers" /\ In(name, Keys(services))
    THEN <<[type |-> "service", source_id |-> name, target_id |-> node_name,
            direction |-> "provide"]>>
    ELSE IF section = "Service Clients" /\ In(name, Keys(services))
    THEN <<[type |-> "service", source_id |-> node_name, target_id |-> name,
            direction |-> "call"]>>
    ELSE <<>>

\* lines 321-360: the connections the node info of one node appends
ConnectionsOf(info, node_name, topics, services) ==
    LET F[j \in 0..Len(info)] ==
            IF j = 0 THEN <<>>
            ELSE IF info[j].header \/ CurrentSection(info, j) = "None"
                 THEN F[j - 1]
                 ELSE F[j - 1] \o ConnectionsOfLine(CurrentSection(info, j),
                                     info[j].text, node_name, topics, services)
    IN  F[Len(info)]

\* parse_interface_schema (lines 196-214)
parse_interface_schema(output) ==
    LET kept == SelectSeq(output, LAMBDA line : ~line.skipped)
    IN  [i \in 1..Len(kept) |-> kept[i].text]

\* lines 363-369 and 372-378
Described(discovered, output) ==
    [i \in 1..Len(discovered) |->
        [k |-> discovered[i].k,
         v |-> [id |-> discovered[i].k, name |-> discovered[i].k,
                type |-> discovered[i].v,
                message_schema |-> parse_interface_schema(output)]]]

-----------------------------------------------------------------------------
(* What the ros2 commands answer.  The answers are the environment's: they *)
(* are drawn from the families below, a family varying one part of them.   *)

MaxNodes == 2    \* names "ros2 node list" prints
MaxListed == 1   \* lines "ros2 topic list -t" and "ros2 service list -t" print
MaxLines == 3    \* lines of a "ros2 node info" that vary

ListedNodes ==
    {"/cam", "/listener_impl", "/_ros2cli_1", "/ros2_state_yaml_dumper_node"}

ListLine(name, types) == [name |-> name, types |-> types]

TopicLines ==
    {ListLine("/image", <<"sensor_msgs/msg/Image">>),
     ListLine("/cam/parameter_events", <<"rcl_interfaces/msg/ParameterEvent">>),
     ListLine("/image", <<"sensor_msgs/msg/Image", "std_msgs/msg/String">>)}

ServiceLines ==
    {ListLine("/reset", <<"std_srvs/srv/Empty">>),
     ListLine("/cam/get_parameters", <<"rcl_interfaces/srv/GetParameters">>),
     ListLine("/reset", <<"std_srvs/srv/Empty", "std_srvs/srv/Trigger">>)}

Header(text) == [header |-> TRUE, text |-> text]
Entry(name) == [header |-> FALSE, text |-> name]

InfoLines ==
    {Header(t) : t \in {"Publishers", "Subscribers", "Service Servers",
                        "Service Clients", "Action Servers"}}
    \cup {Entry(n) : n \in {"/image", "/cam/parameter_events", "/reset",
                            "/cam/get_parameters"}}

FullTopicList ==
    <<ListLine("/image", <<"sensor_msgs/msg/Image">>),
      ListLine("/cam/parameter_events", <<"rcl_interfaces/msg/ParameterEvent">>)>>

FullServiceList ==
    <<ListLine("/reset", <<"std_srvs/srv/Empty">>),
      ListLine("/cam/get_parameters", <<"rcl_interfaces/srv/GetParameters">>)>>

FullInfo ==
    <<Entry("/cam"),
      Header("Publishers"), Entry("/image"), Entry("/cam/parameter_events"),
      Header("Subscribers"), Entry("/image"),
      Header("Service Servers"), Entry("/reset"), Entry("/cam/get_parameters"),
      Header("Service Clients"), Entry("/reset"),
      Header("Action Servers")>>

InterfaceShow ==
    <<[text |-> "# a comment", skipped |-> TRUE],
      [text |-> "string data", skipped |-> FALSE],
      [text |-> "", skipped |-> TRUE]>>

ComponentLists ==
    {<<>>,
     <<[leading_space |-> FALSE, name |-> "/cam"]>>,
     <<[leading_space |-> FALSE, name |-> "/container"],
       [leading_space |-> TRUE, name |-> "/cam"]>>}

CommandFailed == [py |-> "failed"]

RosParameters(node_params) ==
    Dict(<<[k |-> "ros__parameters", v |-> node_params]>>)

\* what yaml.safe_load makes of the dumps of the node /cam whose parameter
\* mappings hold at most n entries
YamlDocs(n) ==
    {NoneValue,
     Dict(<<[k |-> "/cam", v |-> IntValue]>>),
     Dict(<<[k |-> "/cam", v |-> RosParameters(IntValue)]>>)}
    \cup {Dict(<<[k |-> "/cam", v |-> RosParameters(Dict(f))]>>) : f \in DictItems(n)}
    \cup {RosParameters(Dict(f)) : f \in DictItems(n)}

Cli(nodes, topics, services, components, ok, dump, info, shown) ==
    [node_list |-> nodes, topic_list |-> topics, service_list |-> services,
     component_list |-> components, param_list_ok |-> ok, param_dump |-> dump,
     node_info |-> info, interface_show |-> shown]

\* the parameter dump varies
DumpFamily ==
    {Cli(<<"/cam">>, FullTopicList, FullServiceList, <<>>, TRUE, dump,
         FullInfo, InterfaceShow) : dump \in YamlDocs(MaxEntries)}

\* the reasons to skip the parameter dump vary
SkipFamily ==
    {Cli(<<n>>, FullTopicList, FullServiceList, cs, ok, dump, FullInfo, shown) :
        n \in {"/cam", "/listener_impl"}, cs \in ComponentLists,
        ok \in BOOLEAN, dump \in {CommandFailed} \cup YamlDocs(1),
        shown \in {<<>>, InterfaceShow}}

\* the lists of nodes, topics and services vary
ListFamily ==
    {Cli(ns, ts, ss, <<>>, TRUE, NoneValue, FullInfo, InterfaceShow) :
        ns \in SeqsUpTo(ListedNodes, MaxNodes),
        ts \in SeqsUpTo(TopicLines, MaxListed),
        ss \in SeqsUpTo(ServiceLines, MaxListed)}

\* the node info varies
InfoFamily ==
    {Cli(<<"/cam">>, FullTopicList, FullServiceList, <<>>, TRUE, NoneValue,
         info, InterfaceShow) : info \in SeqsUpTo(InfoLines, MaxLines)}

CliAnswers == DumpFamily \cup SkipFamily \cup ListFamily \cup InfoFamily

-----------------------------------------------------------------------------
(* collect_ros2_graph_data as a state machine.                             *)

node_name == node_list_filtered[node_i + 1]

\* the other script, scripts/diff_check.py, is not running
DiffNotStarted ==
    /\ before_data = <<>>
    /\ after_data = <<>>
    /\ diff_map = EmptyDiffMap
    /\ pc = "not_started"
    /\ key_idx = 1
    /\ idx_before = 1
    /\ idx_after = 1
    /\ error = <<>>
    /\ diff_result = <<>>

\* lines 225-237
DumperInit ==
    /\ cli \in CliAnswers
    /\ graph_data = [nodes |-> <<>>, topics |-> <<>>, services |-> <<>>,
                     actions |-> <<>>, connections |-> <<>>]
    /\ node_list_filtered = <<>>
    /\ discovered_topics = <<>>
    /\ discovered_services = <<>>
    /\ container_nodes = {}
    /\ node_i = 0
    /\ dumper_pc = "list_nodes"
    /\ DiffNotStarted

\* lines 240-248
ListNodes ==
    /\ dumper_pc = "list_nodes"
    /\ node_list_filtered' = FilterNodes(cli.node_list)
    /\ dumper_pc' = "discover_topics"
    /\ UNCHANGED <<cli, graph_data, discovered_topics, discovered_services,
                   container_nodes, node_i>>
    /\ UNCHANGED diff_vars

\* lines 251, 257-265
DiscoverTopics ==
    /\ dumper_pc = "discover_topics"
    /\ discovered_topics' =
           Discover(cli.topic_list, IGNORE_TOPIC_NAMES, Len(cli.topic_list))
    /\ dumper_pc' = "discover_services"
    /\ UNCHANGED <<cli, graph_data, node_list_filtered, discovered_services,
                   container_nodes, node_i>>
    /\ UNCHANGED diff_vars

\* lines 252, 267-275
DiscoverServices ==
    /\ dumper_pc = "discover_services"
    /\ discovered_services' =
           Discover(cli.service_list, IGNORE_SERVICE_NAMES, Len(cli.service_list))
    /\ dumper_pc' = "component_info"
    /\ UNCHANGED <<cli, graph_data, node_list_filtered, discovered_topics,
                   container_nodes, node_i>>
    /\ UNCHANGED diff_vars

\* line 279
GetComponentInfo ==
    /\ dumper_pc = "component_info"
    /\ container_nodes' = ContainerNodes(cli.component_list)
    /\ node_i' = 0
    /\ dumper_pc' = "for_node"
    /\ UNCHANGED <<cli, graph_data, node_list_filtered, discovered_topics,
                   discovered_services>>
    /\ UNCHANGED diff_vars

\* lines 283-317 for the next node: its parameters are dumped and its record
\* is stored
AddNode ==
    /\ dumper_pc = "for_node"
    /\ node_i < Len(node_list_filtered)
    /\ graph_data' =
           [graph_data EXCEPT !.nodes =
               Put(@, node_name,
                   NodeRecord(node_i, node_name,
                              ParametersOf(cli, container_nodes, node_name)))]
    /\ dumper_pc' = "node_info"
    /\ UNCHANGED <<cli, node_list_filtered, discovered_topics,
                   discovered_services, container_nodes, node_i>>
    /\ UNCHANGED diff_vars

\* lines 319-360 for the same node: its connections are appended
CollectConnections ==
    /\ dumper_pc = "node_info"
    /\ graph_data' =
           [graph_data EXCEPT !.connections =
               @ \o ConnectionsOf(cli.node_info, node_name, discovered_topics,
                                  discovered_services)]
    /\ node_i' = node_i + 1
    /\ dumper_pc' = "for_node"
    /\ UNCHANGED <<cli, node_list_filtered, discovered_topics,
                   discovered_services, container_nodes>>
    /\ UNCHANGED diff_vars

\* lines 363-369, after the last node
BuildTopics ==
    /\ dumper_pc = "for_node"
    /\ node_i >= Len(node_list_filtered)
    /\ graph_data' =
           [graph_data EXCEPT !.topics =
               Described(discovered_topics, cli.interface_show)]
    /\ dumper_pc' = "build_services"
    /\ UNCHANGED <<cli, node_list_filtered, discovered_topics,
                   discovered_services, container_nodes, node_i>>
    /\ UNCHANGED diff_vars

\* lines 372-378
BuildServices ==
    /\ dumper_pc = "build_services"
    /\ graph_data' =
           [graph_data EXCEPT !.services =
               Described(discovered_services, cli.interface_show)]
    /\ dumper_pc' = "return"
    /\ UNCHANGED <<cli, node_list_filtered, discovered_topics,
                   discovered_services, container_nodes, node_i>>
    /\ UNCHANGED diff_vars

\* line 385
Return ==
    /\ dumper_pc = "return"
    /\ dumper_pc' = "returned"
    /\ UNCHANGED <<cli, graph_data, node_list_filtered, discovered_topics,
                   discovered_services, container_nodes, node_i>>
    /\ UNCHANGED diff_vars

DumperNext ==
    \/ ListNodes
    \/ DiscoverTopics
    \/ DiscoverServices
    \/ GetComponentInfo
    \/ AddNode
    \/ CollectConnections
    \/ BuildTopics
    \/ BuildServices
    \/ Return

DumperSpec == DumperInit /\ [][DumperNext]_vars

-----------------------------------------------------------------------------
(* Properties of the snapshot collect_ros2_graph_data builds.              *)

Returned == dumper_pc = "returned"

ParamNames(node) == [j \in 1..Len(node.parameters) |-> node.parameters[j].name]

\* C14: every node of the snapshot being built has parameters with pairwise
\* distinct names, whatever mappings the dump nests under ros__parameters,
\* keys that hold dots included.
C14_UniqueParamNames ==
    dumper_pc # "not_started" =>
        \A i \in 1..Len(graph_data.nodes) :
            Distinct(ParamNames(graph_data.nodes[i].v))

\* the endpoint of a connection that is the node, and the other one
NodeEnd(c) ==
    IF c.direction \in {"publish", "call"} THEN c.source_id ELSE c.target_id

OtherEnd(c) ==
    IF c.direction \in {"publish", "call"} THEN c.target_id ELSE c.source_id

Running == dumper_pc \notin {"not_started", "returned"}

\* C15: in the snapshot collect_ros2_graph_data returns, the node endpoint
\* of every connection is a key of nodes (already while the snapshot is
\* being built), the other endpoint is a key of topics when the type is
\* "topic" and a key of services when it is "service", and no connection
\* refers to an ignored topic or an ignored parameter service.
C15_ReferentialIntegrity ==
    /\ Running =>
          \A i \in 1..Len(graph_data.connections) :
              In(NodeEnd(graph_data.connections[i]), Keys(graph_data.nodes))
    /\ Returned =>
          \A i \in 1..Len(graph_data.connections) :
              LET c == graph_data.connections[i]
              IN  /\ In(NodeEnd(c), Keys(graph_data.nodes))
                  /\ c.type \in {"topic", "service"}
                  /\ c.type = "topic" =>
                        /\ In(OtherEnd(c), Keys(graph_data.topics))
                        /\ LastSegment(OtherEnd(c)) \notin IGNORE_TOPIC_NAMES
                  /\ c.type = "service" =>
                        /\ In(OtherEnd(c), Keys(graph_data.services))
                        /\ LastSegment(OtherEnd(c)) \notin IGNORE_SERVICE_NAMES

\* a snapshot is returned that holds a topic connection and a service
\* connection, of a node whose info also lists an ignored topic and an
\* ignored parameter service
C15_Witness ==
    /\ Returned
    /\ \E i \in 1..Len(graph_data.connections) :
          graph_data.connections[i].type = "topic"
    /\ \E i \in 1..Len(graph_data.connections) :
          graph_data.connections[i].type = "service"
    /\ In(Entry("/cam/parameter_events"), cli.node_info)
    /\ In(Entry("/cam/get_parameters"), cli.node_info)

====
